---- MODULE Spec2Model ----
(***************************************************************************)
(* s3_versioned_bucket.py: destroy_bucket (state=absent) run against an    *)
(* S3-style object store.  The store is the environment: a bucket with a   *)
(* versioning mode that converges asynchronously, a versions-and-markers   *)
(* catalog, a plain-objects catalog, and a deletion that propagates        *)
(* asynchronously.  The program is the sequential workflow of              *)
(* destroy_bucket, one action per store call.                              *)
(***************************************************************************)
EXTENDS Integers, Sequences, FiniteSets, TLC

\* ---------------------------------------------------------------- bounds
MaxRecords == 3          \* most (key, versionId) records a bucket starts with
MaxPlain == 1            \* most keys the plain-objects catalog starts with
PageSize == 2            \* records per listing page (store-determined)
WaiterMaxAttempts == 2   \* polls of the store's bucket_not_exists waiter
MaxRuns == 2             \* successive invocations of destroy_bucket

\* ------------------------------------------------------ program constants
PollAttemptsOffByOne == 12 + 1
PollAttempts == 12       \* range(0, 12) in wait_versioning_is_applied
PollInterval == 5        \* time.sleep(5)

Name == "mys3bucket"
OtherBuckets == {"other"}
Kinds == {"version", "marker"}
Modes == {"Unset", "Enabled", "Suspended"}
States == {"present", "absent"}    \* choices of the state option

\* errors a store call can end with once the retry wrapper has given up
Raised == {"EndpointConnectionError", "BotoCoreError", "ClientError"}

MsgEndpoint == "Invalid endpoint provided"
MsgPresence == "Failed to check bucket presence"
MsgGetVersioning == "Failed to get bucket versioning"
MsgPutVersioning == "Failed to update bucket versioning"
MsgUpdatedVersioning == "Failed to get updated versioning for bucket"
MsgTimeout == "Bucket versioning failed to apply in the excepted time"
MsgWaiting == "An error occurred waiting for the bucket to be deleted."
MsgDelete == "Failed to delete bucket"

CallNames == {"list_buckets", "get_bucket_versioning", "put_bucket_versioning",
              "list_object_versions", "list_objects_v2", "delete_version",
              "delete_plain", "delete_bucket", "wait"}
NoCalls == [c \in CallNames |-> 0]

VARIABLES
  bucket,       \* store: "present", "deleting" (delete accepted, still listed) or "absent"
  mode,         \* store: versioning mode that reads observe
  pending,      \* store: requested mode not yet observable, or "none"
  kinds,        \* store: kind of each record the bucket started with, by id
  versions,     \* store: ids of the records still in the versions catalog
  plain,        \* store: keys still in the plain-objects catalog
  init,         \* the store as it was before the first run
  force,        \* module.params["force"]
  state,        \* module.params["state"]
  run,          \* which invocation of destroy_bucket is running
  pc,           \* position of the run
  bucket_is_present,    \* local of destroy_bucket, "unbound" before the probe
  required_versioning,  \* local of destroy_bucket, "unbound" until assigned
  versioning_status,    \* Status of the last get_bucket_versioning answer
  polls,        \* reads made by wait_versioning_is_applied
  slept,        \* time units slept by wait_versioning_is_applied
  page,         \* records (or keys) of the current page still to be processed
  marker,       \* continuation token: last id the listing returned
  truncated,    \* the listing has further pages
  attempted,    \* record ids a versioned delete_object was issued for
  waits,        \* polls made by the bucket_not_exists waiter
  calls,        \* store calls issued by this run, by name
  puts,         \* targets passed to put_bucket_versioning by this run
  errors,       \* store answers of this run that were errors
  delResp,      \* the store's answer to this run's delete_bucket, or "none"
  result,       \* outcome of this run: kind, msg, cause
  first         \* result of the first run, once a second has started

store == <<bucket, mode, pending, kinds, versions, plain, init>>
locals == <<bucket_is_present, required_versioning, versioning_status, polls,
            slept, page, marker, truncated, waits>>
log == <<attempted, calls, puts, errors, delResp>>
vars == <<store, force, state, run, pc, locals, log, result, first>>

NoResult == [kind |-> "none", msg |-> "none", cause |-> "none"]

\* ------------------------------------------------------------- the store
AllRecords == 1..Len(kinds)
Markers(ids) == {i \in ids : kinds[i] = "marker"}
DataVersions(ids) == {i \in ids : kinds[i] = "version"}

\* list_buckets: the names of the caller's buckets; a bucket whose deletion
\* has not propagated yet is still listed
ListBuckets == OtherBuckets \cup (IF bucket = "absent" THEN {} ELSE {Name})

\* the ascending sequence of the elements of a finite set of integers
RECURSIVE Ascending(_)
Ascending(S) ==
  IF S = {} THEN <<>>
  ELSE LET m == CHOOSE x \in S : \A y \in S : x <= y
       IN <<m>> \o Ascending(S \ {m})

Prefix(s, n) == SubSeq(s, 1, IF Len(s) < n THEN Len(s) ELSE n)
Range(s) == {s[i] : i \in 1..Len(s)}

\* one listing page: the first PageSize entries after the continuation token
PageAfter(S, tok) == Prefix(Ascending({i \in S : i > tok}), PageSize)
IsTruncated(S, tok) == Cardinality({i \in S : i > tok}) > PageSize

\* the store refuses to delete a bucket that still holds anything
BucketEmpty == versions = {} /\ plain = {}
DeleteBucketAnswer ==
  IF bucket # "present" THEN "NoSuchBucket"
  ELSE IF BucketEmpty THEN "ok" ELSE "BucketNotEmpty"

\* ----------------------------------------------------------- the program
\* fail_json / fail_json_aws, exit_json, and an exception nobody catches
Fail(m, c) == [kind |-> "failed", msg |-> m, cause |-> c]
Exit(ch) == [kind |-> IF ch THEN "changed" ELSE "absent", msg |-> "none", cause |-> "none"]
Crash(c) == [kind |-> "crash", msg |-> "none", cause |-> c]

Called(c) == calls' = [calls EXCEPT ![c] = @ + 1]
Finish(r) == pc' = "done" /\ result' = r

bucket_existsAnyBucket(all_buckets, bucket_name) == all_buckets # {}
bucket_exists(all_buckets, bucket_name) == \E b \in all_buckets : b = bucket_name

\* except clauses of the probe, first match wins
ProbeHandler(e) ==
  IF e = "EndpointConnectionError" THEN Fail(MsgEndpoint, e) ELSE Fail(MsgPresence, e)

\* where the run goes after a successful probe: "done" is exit_json(changed=False)
NextAfterProbeNoExit(present, f) == IF f THEN "get_versioning" ELSE "delete_bucket"
NextAfterProbeAlwaysPurge(present, f) == IF ~present THEN "done" ELSE "get_versioning"
NextAfterProbeForceInverted(present, f) ==
  IF ~present THEN "done"
  ELSE IF ~f THEN "get_versioning" ELSE "delete_bucket"
NextAfterProbe(present, f) ==
  IF ~present THEN "done"
  ELSE IF f THEN "get_versioning" ELSE "delete_bucket"

Probe ==
  /\ pc = "probe"
  /\ Called("list_buckets")
  /\ \/ \E e \in Raised :
          /\ Finish(ProbeHandler(e))
          /\ errors' = errors \cup {e}
          /\ UNCHANGED bucket_is_present
     \/ LET present == bucket_exists(ListBuckets, Name)
            next == NextAfterProbe(present, force)
        IN /\ bucket_is_present' = IF present THEN "True" ELSE "False"
           /\ pc' = next
           /\ result' = IF next = "done" THEN Exit(FALSE) ELSE result
           /\ UNCHANGED errors
  /\ UNCHANGED <<store, force, state, run, required_versioning, versioning_status,
                 polls, slept, page, marker, truncated, waits, attempted,
                 puts, delResp, first>>

\* lines 122-123: the only assignment to required_versioning
RequiredVersioningKeepsEnabled(status) == IF status = "Enabled" THEN "Enabled" ELSE "unbound"
RequiredVersioningAlwaysSuspends(status) == "Suspended"
RequiredVersioning(status) == IF status = "Enabled" THEN "Suspended" ELSE "unbound"

GetVersioning ==
  /\ pc = "get_versioning"
  /\ Called("get_bucket_versioning")
  /\ \/ \E e \in Raised :
          /\ Finish(Fail(MsgGetVersioning, e))
          /\ errors' = errors \cup {e}
          /\ UNCHANGED <<versioning_status, required_versioning>>
     \/ /\ bucket = "present"
        /\ versioning_status' = mode
        /\ required_versioning' = RequiredVersioning(mode)
        \* line 125 reads required_versioning: unbound unless Status was Enabled
        /\ IF required_versioning' = "unbound"
             THEN Finish(Crash("UnboundLocalError"))
             ELSE pc' = "put_versioning" /\ UNCHANGED result
        /\ UNCHANGED errors
  /\ UNCHANGED <<store, force, state, run, bucket_is_present, polls, slept, page,
                 marker, truncated, waits, attempted, puts, delResp, first>>

PutVersioning ==
  /\ pc = "put_versioning"
  /\ Called("put_bucket_versioning")
  /\ puts' = puts \cup {required_versioning}
  /\ \/ \E e \in Raised :
          /\ Finish(Fail(MsgPutVersioning, e))
          /\ errors' = errors \cup {e}
          /\ UNCHANGED pending
     \/ /\ bucket = "present"
        /\ pending' = required_versioning
        /\ pc' = "wait"
        /\ UNCHANGED <<result, errors>>
  /\ UNCHANGED <<bucket, mode, kinds, versions, plain, init, force, state, run,
                 locals, attempted, delResp, first>>

\* one iteration of the loop of wait_versioning_is_applied
WaitPoll ==
  /\ pc = "wait"
  /\ Called("get_bucket_versioning")
  /\ polls' = polls + 1
  /\ \/ \E e \in Raised :
          /\ Finish(Fail(MsgUpdatedVersioning, e))
          /\ errors' = errors \cup {e}
          /\ UNCHANGED <<versioning_status, slept, marker>>
     \/ /\ bucket = "present"
        /\ versioning_status' = mode
        /\ UNCHANGED errors
        /\ IF mode # required_versioning
             THEN /\ slept' = slept + PollInterval
                  /\ IF polls' = PollAttempts
                       THEN Finish(Fail(MsgTimeout, "none"))
                       ELSE UNCHANGED <<pc, result>>
                  /\ UNCHANGED marker
             ELSE /\ pc' = "list_versions"
                  /\ marker' = 0
                  /\ UNCHANGED <<slept, result>>
  /\ UNCHANGED <<store, force, state, run, bucket_is_present, required_versioning,
                 page, truncated, waits, attempted, puts, delResp, first>>

\* lines 138-150: the records of a page in the order they are deleted
PageRecordsVersionsOnly(ids) == Ascending(DataVersions(ids))
PageRecords(ids) == Ascending(Markers(ids)) \o Ascending(DataVersions(ids))

AfterVersionsPageNeverLeaves(pg, trunc) ==
  IF pg # <<>> THEN "purge_page"
  ELSE IF trunc THEN "list_versions" ELSE "purge_page"
AfterVersionsPageSkipsSweep(pg, trunc) ==
  IF pg # <<>> THEN "purge_page"
  ELSE IF trunc THEN "list_versions" ELSE "delete_bucket"
AfterVersionsPage(pg, trunc) ==
  IF pg # <<>> THEN "purge_page"
  ELSE IF trunc THEN "list_versions" ELSE "list_objects"

ListVersions ==
  /\ pc = "list_versions"
  /\ Called("list_object_versions")
  /\ \/ \E e \in Raised :
          /\ Finish(Crash(e))
          /\ errors' = errors \cup {e}
          /\ UNCHANGED <<page, marker, truncated>>
     \/ /\ bucket = "present"
        /\ LET ids == PageAfter(versions, marker)
               trunc == IsTruncated(versions, marker)
               pg == PageRecords(Range(ids))
               next == AfterVersionsPage(pg, trunc)
           IN /\ page' = pg
              /\ truncated' = trunc
              /\ pc' = next
              /\ marker' = IF next = "list_objects" THEN 0
                           ELSE IF ids = <<>> THEN marker ELSE ids[Len(ids)]
        /\ UNCHANGED <<result, errors>>
  /\ UNCHANGED <<store, force, state, run, bucket_is_present, required_versioning,
                 versioning_status, polls, slept, waits, attempted, puts,
                 delResp, first>>

\* lines 144 and 150: delete_object(Bucket, Key, VersionId)
DeleteVersion ==
  /\ pc = "purge_page"
  /\ page # <<>>
  /\ Called("delete_version")
  /\ attempted' = attempted \cup {Head(page)}
  /\ \/ \E e \in Raised :
          /\ Finish(Crash(e))
          /\ errors' = errors \cup {e}
          /\ UNCHANGED <<versions, page, marker>>
     \/ /\ bucket = "present"
        /\ versions' = versions \ {Head(page)}
        /\ page' = Tail(page)
        /\ pc' = AfterVersionsPage(page', truncated)
        /\ marker' = IF pc' = "list_objects" THEN 0 ELSE marker
        /\ UNCHANGED <<result, errors>>
  /\ UNCHANGED <<bucket, mode, pending, kinds, plain, init, force, state, run,
                 bucket_is_present, required_versioning, versioning_status,
                 polls, slept, truncated, waits, puts, delResp, first>>

AfterObjectsPage(pg, trunc) ==
  IF pg # <<>> THEN "sweep_page"
  ELSE IF trunc THEN "list_objects" ELSE "delete_bucket"

ListObjects ==
  /\ pc = "list_objects"
  /\ Called("list_objects_v2")
  /\ \/ \E e \in Raised :
          /\ Finish(Crash(e))
          /\ errors' = errors \cup {e}
          /\ UNCHANGED <<page, marker, truncated>>
     \/ /\ bucket = "present"
        /\ LET keys == PageAfter(plain, marker)
               trunc == IsTruncated(plain, marker)
           IN /\ page' = keys
              /\ truncated' = trunc
              /\ pc' = AfterObjectsPage(keys, trunc)
              /\ marker' = IF keys = <<>> THEN marker ELSE keys[Len(keys)]
        /\ UNCHANGED <<result, errors>>
  /\ UNCHANGED <<store, force, state, run, bucket_is_present, required_versioning,
                 versioning_status, polls, slept, waits, attempted, puts,
                 delResp, first>>

\* the names destroy_bucket can read: its parameters, its locals and the
\* module's globals; bucket_name is a parameter of other functions only
DestroyBucketNames == {"s3_client", "module", "name", "force", "bucket_is_present",
                       "versioning_status", "required_versioning", "changed",
                       "paginator", "page_iterator", "page", "delete_markers",
                       "delete_marker", "key", "versionId", "versions", "version",
                       "object_paginator", "content"}
Bound(n) == n \in DestroyBucketNames

\* line 159: delete_object(Bucket=bucket_name, Key=content['Key'])
SweepDelete ==
  /\ pc = "sweep_page"
  /\ page # <<>>
  /\ IF ~Bound("bucket_name")
       THEN /\ Finish(Crash("NameError"))
            /\ UNCHANGED <<plain, page, calls, errors>>
       ELSE /\ Called("delete_plain")
            /\ \/ \E e \in Raised :
                    /\ Finish(Crash(e))
                    /\ errors' = errors \cup {e}
                    /\ UNCHANGED <<plain, page>>
               \/ /\ bucket = "present"
                  /\ plain' = plain \ {Head(page)}
                  /\ page' = Tail(page)
                  /\ pc' = AfterObjectsPage(page', truncated)
                  /\ UNCHANGED <<result, errors>>
  /\ UNCHANGED <<bucket, mode, pending, kinds, versions, init, force, state, run,
                 bucket_is_present, required_versioning, versioning_status,
                 polls, slept, marker, truncated, waits, attempted, puts,
                 delResp, first>>

\* lines 88-98: what delete_bucket raises for a store answer ("ok": nothing)
delete_bucketRaisesNoSuchBucket(answer) == answer
delete_bucket(answer) == IF answer = "NoSuchBucket" THEN "ok" ELSE answer

\* lines 164-167: except clauses of the delete step, first match wins
DeleteHandlerSwallowsWaiterError(e) ==
  IF e = "WaiterError" THEN Exit(TRUE) ELSE Fail(MsgDelete, e)
DeleteHandlerBotoCoreFirst(e) == Fail(MsgDelete, e)
DeleteHandler(e) ==
  IF e = "WaiterError" THEN Fail(MsgWaiting, e) ELSE Fail(MsgDelete, e)

DeleteBucket ==
  /\ pc = "delete_bucket"
  /\ Called("delete_bucket")
  /\ \E answer \in {DeleteBucketAnswer} \cup Raised :
       /\ delResp' = answer
       /\ errors' = IF answer = "ok" THEN errors ELSE errors \cup {answer}
       /\ bucket' = IF answer = "ok" THEN "deleting" ELSE bucket
       /\ IF delete_bucket(answer) = "ok"
            THEN pc' = "wait_absent" /\ UNCHANGED result
            ELSE Finish(DeleteHandler(delete_bucket(answer)))
  /\ UNCHANGED <<mode, pending, kinds, versions, plain, init, force, state, run,
                 locals, attempted, puts, first>>

\* line 163: one poll of the bucket_not_exists waiter
WaitAbsent ==
  /\ pc = "wait_absent"
  /\ calls' = IF waits = 0 THEN [calls EXCEPT !["wait"] = @ + 1] ELSE calls
  /\ waits' = waits + 1
  /\ \/ \E e \in Raised :
          /\ Finish(DeleteHandler(e))
          /\ errors' = errors \cup {e}
     \/ /\ bucket = "absent"
        /\ Finish(Exit(TRUE))
        /\ UNCHANGED errors
     \/ /\ bucket # "absent"
        /\ IF waits' = WaiterMaxAttempts
             THEN Finish(DeleteHandler("WaiterError")) /\ errors' = errors \cup {"WaiterError"}
             ELSE UNCHANGED <<pc, result, errors>>
  /\ UNCHANGED <<store, force, state, run, bucket_is_present, required_versioning,
                 versioning_status, polls, slept, page, marker, truncated,
                 attempted, puts, delResp, first>>

\* ------------------------------------------------------- the environment
\* a requested versioning mode becomes observable
Converge ==
  /\ pending # "none"
  /\ mode' = pending
  /\ pending' = "none"
  /\ UNCHANGED <<bucket, kinds, versions, plain, init, force, state, run, pc,
                 locals, log, result, first>>

\* an accepted bucket deletion becomes observable
Propagate ==
  /\ bucket = "deleting"
  /\ bucket' = "absent"
  /\ UNCHANGED <<mode, pending, kinds, versions, plain, init, force, state, run, pc,
                 locals, log, result, first>>

\* lines 205-211 of main(): state=present has no branch left (it is commented
\* out), so main returns without calling exit_json or fail_json
MainDispatch(st) == IF st = "absent" THEN "probe" ELSE "done"

Main ==
  /\ pc = "main"
  /\ pc' = MainDispatch(state)
  /\ UNCHANGED <<store, force, state, run, locals, log, result, first>>

\* main() is invoked again with the same name and force
NextRun ==
  /\ pc = "done"
  /\ run < MaxRuns
  /\ run' = run + 1
  /\ first' = IF run = 1 THEN result ELSE first
  /\ pc' = "main"
  /\ bucket_is_present' = "unbound"
  /\ required_versioning' = "unbound"
  /\ versioning_status' = "unbound"
  /\ polls' = 0 /\ slept' = 0 /\ waits' = 0
  /\ page' = <<>> /\ marker' = 0 /\ truncated' = FALSE
  /\ attempted' = {} /\ calls' = NoCalls /\ puts' = {} /\ errors' = {}
  /\ delResp' = "none"
  /\ result' = NoResult
  /\ UNCHANGED <<store, force, state>>

KindSeqs == UNION {[1..n -> Kinds] : n \in 0..MaxRecords}

Init ==
  /\ bucket \in {"present", "deleting", "absent"}
  /\ pending = "none"
  /\ IF bucket = "present"
       THEN /\ mode \in Modes
            /\ kinds \in KindSeqs
            /\ \E n \in 0..MaxPlain : plain = 1..n
       ELSE mode = "Unset" /\ kinds = <<>> /\ plain = {}
  /\ versions = 1..Len(kinds)
  /\ init = [bucket |-> bucket, mode |-> mode, plain |-> plain]
  /\ force \in BOOLEAN
  /\ state \in States
  /\ run = 1
  /\ pc = "main"
  /\ bucket_is_present = "unbound"
  /\ required_versioning = "unbound"
  /\ versioning_status = "unbound"
  /\ polls = 0 /\ slept = 0 /\ waits = 0
  /\ page = <<>> /\ marker = 0 /\ truncated = FALSE
  /\ attempted = {} /\ calls = NoCalls /\ puts = {} /\ errors = {}
  /\ delResp = "none"
  /\ result = NoResult
  /\ first = NoResult

DestroyBucket ==
  \/ Probe \/ GetVersioning \/ PutVersioning \/ WaitPoll
  \/ ListVersions \/ DeleteVersion \/ ListObjects \/ SweepDelete
  \/ DeleteBucket \/ WaitAbsent

Next ==
  \/ Main
  \/ Probe \/ GetVersioning \/ PutVersioning \/ WaitPoll
  \/ ListVersions \/ DeleteVersion \/ ListObjects \/ SweepDelete
  \/ DeleteBucket \/ WaitAbsent
  \/ Converge \/ Propagate \/ NextRun

Spec == Init /\ [][Next]_vars

\* the module is one sequential process: while a run has a next statement it
\* is eventually executed; whether main() is invoked again is up to the caller
FairSpec == Init /\ [][Next]_vars /\ WF_vars(Main \/ DestroyBucket)

TypeOK ==
  /\ bucket \in {"present", "deleting", "absent"}
  /\ mode \in Modes /\ pending \in Modes \cup {"none"}
  /\ versions \subseteq AllRecords
  /\ pc \in {"main", "probe", "get_versioning", "put_versioning", "wait", "list_versions",
             "purge_page", "list_objects", "sweep_page", "delete_bucket",
             "wait_absent", "done"}
  /\ result.kind \in {"none", "absent", "changed", "failed", "crash"}
  /\ polls \in 0..PollAttempts
\* ------------------------------------------------------------ properties
Forced == force /\ run = 1 /\ init.bucket = "present"
Done == state = "absent" /\ pc = "done"

\* C1: a forced run that ends with changed=true leaves no object version, no
\* delete marker and no plain object, and the bucket no longer exists.
C1_ForcedSuccessLeavesNothing ==
  (force /\ Done /\ result.kind = "changed")
    => (versions = {} /\ plain = {} /\ bucket = "absent")

C1_Witness ==
  /\ Forced /\ Done /\ result.kind = "changed"
  /\ Markers(AllRecords) # {} /\ DataVersions(AllRecords) # {}
  /\ attempted = AllRecords

\* C2: without force, a run on an existing bucket that holds object versions
\* ends in a failure (the store's refusal of delete_bucket is reported as the
\* delete failure), issues no delete_object and leaves the contents as they were.
C2_UnforcedNonEmptyFails ==
  (~force /\ init.bucket = "present" /\ kinds # <<>>)
    => /\ calls["delete_version"] = 0 /\ calls["delete_plain"] = 0
       /\ versions = AllRecords /\ plain = init.plain /\ bucket = "present"
       /\ Done => result.kind = "failed"
       /\ delResp # "none" => Done /\ result = Fail(MsgDelete, delResp)
       /\ delResp \in {"none", "BucketNotEmpty"} \cup Raised

C2_Witness ==
  /\ ~force /\ init.bucket = "present" /\ kinds # <<>>
  /\ Done /\ delResp = "BucketNotEmpty"
  /\ result = Fail(MsgDelete, "BucketNotEmpty")

\* C3 as stated: for every bucket that exists at the start, the first of two
\* successive runs yields changed=true and the second changed=false.
C3_Original ==
  (init.bucket = "present" /\ Done)
    => /\ run = 1 => result.kind = "changed"
       /\ run = 2 => first.kind = "changed" /\ result.kind = "absent"

\* C3 as amended: when the first run on an existing bucket ends with
\* changed=true, a later run with the same name and force finds the bucket
\* absent, issues no call besides the probe, never yields changed=true, and
\* yields changed=false whenever its probe succeeds.
C3_SecondRunUnchanged ==
  (init.bucket = "present" /\ run >= 2 /\ first.kind = "changed")
    => /\ bucket = "absent"
       /\ \A c \in CallNames \ {"list_buckets"} : calls[c] = 0
       /\ Done => result.kind \in {"absent", "failed"}
       /\ (Done /\ errors = {}) => result = Exit(FALSE)

C3_Witness ==
  /\ init.bucket = "present" /\ run = 2 /\ first.kind = "changed"
  /\ Done /\ result = Exit(FALSE)

\* C4: when the probe reports that the bucket does not exist the run ends with
\* changed=false and has issued no store call besides the probe, whatever force is.
C4_AbsentNoCalls ==
  (bucket_is_present = "False")
    => /\ Done /\ result = Exit(FALSE)
       /\ \A c \in CallNames \ {"list_buckets"} : calls[c] = 0
       /\ calls["list_buckets"] = 1

C4_Witness ==
  bucket_is_present = "False" /\ force /\ Done /\ result.kind = "absent"

PurgeFinished == calls["list_objects_v2"] > 0 \/ calls["delete_bucket"] > 0

\* C5: in a forced run on a bucket of N data versions and M delete markers,
\* every versioned delete_object is for a distinct listed record, and once the
\* versions listing is drained (and so before delete_bucket is issued) exactly
\* N+M of them were issued, one for every data version and delete marker.
C5_PurgeCountsAndOrder ==
  Forced
    => /\ calls["delete_version"] = Cardinality(attempted)
       /\ attempted \subseteq AllRecords
       /\ PurgeFinished
            => /\ attempted = AllRecords
               /\ calls["delete_version"] =
                    Cardinality(DataVersions(AllRecords)) + Cardinality(Markers(AllRecords))

C5_Witness ==
  /\ Forced /\ calls["delete_bucket"] > 0
  /\ calls["list_object_versions"] >= 2
  /\ Markers(AllRecords) # {} /\ DataVersions(AllRecords) # {}

WaitReturned == pc = "list_versions" \/ calls["list_object_versions"] > 0

\* C6: wait_versioning_is_applied reads the mode at most 12 times and sleeps 5
\* after every read that misses; it goes on polling only while no read has
\* observed the required mode, returns on the first read that observes it, and
\* after 12 misses has failed with the timeout message.
C6_BoundedPolling ==
  /\ polls <= 12
  /\ pc = "wait"
       => /\ polls < 12 /\ slept = 5 * polls
          /\ polls > 0 => versioning_status # required_versioning
  /\ WaitReturned
       => /\ polls >= 1 /\ slept = 5 * (polls - 1)
          /\ versioning_status = required_versioning
  /\ result.msg = MsgTimeout
       => /\ Done /\ result = Fail(MsgTimeout, "none")
          /\ polls = 12 /\ slept = 60
          /\ versioning_status # required_versioning
  /\ (polls = 12 /\ ~WaitReturned)
       => Done /\ result.kind = "failed"
               /\ result.msg \in {MsgTimeout, MsgUpdatedVersioning}
  /\ (polls = 12 /\ ~WaitReturned /\ errors = {}) => result.msg = MsgTimeout

C6_Witness ==
  Done /\ result = Fail(MsgTimeout, "none") /\ polls = 12 /\ slept = 60

\* C7 as stated: a NoSuchBucket answer to delete_bucket makes the run end with
\* changed=true; any other error answer makes it end in a failure.
C7_Original ==
  /\ (delResp = "NoSuchBucket" /\ Done) => result.kind = "changed"
  /\ (delResp \in Raised \cup {"BucketNotEmpty"}) => Done /\ result.kind = "failed"

\* C7 as amended: a NoSuchBucket answer to delete_bucket is swallowed: the run
\* goes on to the absence wait, never reports the delete failure for it, and
\* ends with changed=true unless the wait itself fails; any other error answer
\* ends the run at once with the delete failure carrying that error.
C7_NoSuchBucketSwallowed ==
  /\ delResp = "NoSuchBucket"
       => /\ pc = "wait_absent" \/ (Done /\ waits > 0)
          /\ Done => \/ result = Exit(TRUE)
                     \/ /\ result.kind = "failed"
                        /\ result.cause \in (errors \ {"NoSuchBucket"})
          /\ (Done /\ errors = {"NoSuchBucket"}) => result = Exit(TRUE)
  /\ delResp \in Raised \cup {"BucketNotEmpty"}
       => Done /\ result = Fail(MsgDelete, delResp) /\ waits = 0

C7_Witness ==
  delResp = "NoSuchBucket" /\ Done /\ result = Exit(TRUE) /\ waits > 0

\* C8: a forced run on an existing bucket whose mode is Enabled, in which every
\* store call succeeds and the mode converges, requests Suspended exactly once,
\* deletes every data version and delete marker, deletes the bucket and ends
\* with changed=true.
C8_Claim ==
  (Forced /\ init.mode = "Enabled" /\ Done /\ errors = {} /\ result.msg # MsgTimeout)
    => /\ result = Exit(TRUE)
       /\ calls["put_bucket_versioning"] = 1 /\ puts = {"Suspended"}
       /\ versions = {} /\ calls["delete_version"] = Len(kinds)
       /\ bucket = "absent"

\* C9: a forced run on an existing bucket whose mode is Suspended or Unset
\* requests no versioning transition, does not crash, and ends with
\* changed=true when the store calls succeed.
C9_Claim ==
  (Forced /\ init.mode \in {"Suspended", "Unset"} /\ Done)
    => /\ calls["put_bucket_versioning"] = 0
       /\ result.kind # "crash"
       /\ errors = {} => result = Exit(TRUE)

\* C10: every run ends as 'already absent' (changed=false), as 'deleted'
\* (changed=true) or as a reported failure naming the failing step.
C10_Claim ==
  Done => /\ result.kind \in {"absent", "changed", "failed"}
          /\ result.kind = "failed" => result.msg # "none"
\* C11: a run with state=present creates the bucket: when it ends the bucket
\* exists and an outcome has been reported.
C11_Claim ==
  (state = "present" /\ pc = "done")
    => bucket = "present" /\ result.kind \in {"absent", "changed", "failed"}

VersionCalls == calls["list_object_versions"] + calls["delete_version"]
SweepCalls == calls["list_objects_v2"] + calls["delete_plain"]
DeleteCalls == calls["delete_bucket"] + calls["wait"]

\* C12: the steps of a forced run come in order: probe, versioning read,
\* transition request, convergence wait, version listing and deletions,
\* plain-object sweep, delete_bucket.  Nothing is listed or deleted before the
\* wait has returned, and a run whose wait timed out has issued no listing,
\* no delete_object and no delete_bucket.
C12_ForcedOrder ==
  (force /\ state = "absent")
    => /\ calls["get_bucket_versioning"] > 0
            => calls["list_buckets"] = 1 /\ bucket_is_present = "True"
       /\ calls["put_bucket_versioning"] > 0
            => calls["get_bucket_versioning"] >= 1
       /\ polls > 0
            => /\ calls["put_bucket_versioning"] = 1
               /\ calls["get_bucket_versioning"] = polls + 1
       /\ VersionCalls > 0
            => /\ WaitReturned /\ polls >= 1
               /\ versioning_status = required_versioning
               /\ calls["list_object_versions"] >= 1
       /\ SweepCalls > 0
            => /\ calls["list_object_versions"] >= 1
               /\ versions = {}
               /\ calls["list_objects_v2"] >= 1
       /\ DeleteCalls > 0
            => /\ calls["list_objects_v2"] >= 1
               /\ calls["delete_bucket"] = 1
       /\ pc \in {"main", "probe", "get_versioning", "put_versioning", "wait"}
            => VersionCalls = 0 /\ SweepCalls = 0 /\ DeleteCalls = 0
       /\ pc \in {"list_versions", "purge_page"}
            => SweepCalls = 0 /\ DeleteCalls = 0
       /\ pc \in {"list_objects", "sweep_page", "delete_bucket"}
            => DeleteCalls = 0
       /\ result.msg = MsgTimeout
            => VersionCalls = 0 /\ SweepCalls = 0 /\ DeleteCalls = 0

C12_Witness ==
  /\ Forced /\ Done /\ result = Exit(TRUE)
  /\ polls >= 2 /\ calls["delete_version"] >= 2
  /\ calls["list_objects_v2"] = 1 /\ calls["delete_bucket"] = 1

\* C13: every store error other than NoSuchBucket on delete_bucket ends the run
\* at once as a reported failure that carries the error.
C13_Claim ==
  (errors \ {"NoSuchBucket"} # {})
    => Done /\ result.kind = "failed" /\ result.msg # "none"
            /\ result.cause \in errors

\* C14: in a forced run whose store calls all succeed, once the plain-objects
\* listing has been started it is drained and every key it returns gets one
\* plain delete_object, so the run ends with the plain catalog emptied.
C14_Claim ==
  (Forced /\ Done /\ errors = {} /\ calls["list_objects_v2"] > 0)
    => /\ calls["delete_plain"] = Cardinality(init.plain)
       /\ plain = {}
       /\ calls["delete_bucket"] = 1

\* C15: changed=true is reported only after delete_bucket was issued and the
\* absence wait found the bucket gone; an expired wait ends the run with the
\* waiting failure, any other error of the delete step with the delete failure.
C15_ChangedOnlyAfterConfirmedAbsence ==
  /\ result.kind = "changed"
       => /\ Done /\ calls["delete_bucket"] = 1 /\ waits >= 1
          /\ delResp \in {"ok", "NoSuchBucket"}
          /\ bucket = "absent"
  /\ "WaiterError" \in errors
       => /\ Done /\ result = Fail(MsgWaiting, "WaiterError")
          /\ waits = WaiterMaxAttempts
  /\ (Done /\ calls["delete_bucket"] > 0 /\ result.kind # "changed")
       => /\ result.kind = "failed"
          /\ result.msg \in {MsgWaiting, MsgDelete}
          /\ result.msg = MsgDelete => result.cause \in Raised \cup {"BucketNotEmpty"}

C15_Witness ==
  /\ Done /\ delResp = "ok" /\ bucket = "deleting"
  /\ result = Fail(MsgWaiting, "WaiterError")

\* C16: every run that has started eventually reaches its end, also when the
\* versioning mode never converges or the bucket never disappears.
C16_EveryRunTerminates == (pc # "done") ~> (pc = "done")

C16_Witness ==
  /\ Done /\ force /\ polls >= 2
  /\ "WaiterError" \in errors /\ bucket = "deleting"

FailedAfterPurgeStarted ==
  Forced /\ Done /\ result.kind \in {"failed", "crash"} /\ VersionCalls > 0

\* the record whose delete_object raised, if that is how the run ended
FailedRecord ==
  IF result.kind = "crash" /\ calls["list_objects_v2"] = 0 /\ page # <<>>
    THEN {Head(page)} ELSE {}

\* C17 as stated: when a forced run fails after the purge has started, every
\* record deleted before the failure stays deleted, the bucket still exists and
\* the versioning mode is left Suspended.
C17_Original ==
  FailedAfterPurgeStarted
    => /\ attempted \cap versions \subseteq FailedRecord
       /\ bucket = "present"
       /\ mode = "Suspended"

NothingRestored ==
  /\ versions' \subseteq versions
  /\ plain' \subseteq plain
  /\ bucket # "present" => bucket' # "present"
  /\ (init.mode = "Enabled" /\ mode = "Suspended") => mode' = "Suspended"

\* C17 as amended: when a forced run fails after the purge has started, every
\* record deleted before the failure stays deleted and the versioning mode is
\* left Suspended; the bucket still exists unless the failure came in the
\* absence wait after the store had accepted delete_bucket.  No later step
\* restores a record, the bucket or the Enabled mode.
C17_NoRollback ==
  /\ [](FailedAfterPurgeStarted
          => /\ attempted \cap versions \subseteq FailedRecord
             /\ mode = "Suspended" /\ pending = "none"
             /\ delResp # "ok" => bucket = "present"
             /\ delResp = "ok" => /\ bucket \in {"deleting", "absent"}
                                  /\ waits >= 1 /\ result.kind = "failed"
                                  /\ result.msg \in {MsgWaiting, MsgDelete})
  /\ [][NothingRestored]_vars

C17_Witness ==
  /\ FailedAfterPurgeStarted /\ result.kind = "crash"
  /\ versions # {} /\ AllRecords \ versions # {}
  /\ bucket = "present" /\ mode = "Suspended"

PurgeCallNames == {"get_bucket_versioning", "put_bucket_versioning",
                   "list_object_versions", "list_objects_v2",
                   "delete_version", "delete_plain"}

\* C18: a run without force issues no versioning call, no listing and no
\* delete_object and leaves mode and contents as they were; on an existing
\* empty bucket whose store calls succeed it deletes the bucket and reports
\* changed=true.
C18_UnforcedOnlyDeletesBucket ==
  (~force /\ state = "absent")
    => /\ \A c \in PurgeCallNames : calls[c] = 0
       /\ puts = {} /\ polls = 0 /\ attempted = {}
       /\ mode = init.mode /\ pending = "none"
       /\ versions = AllRecords /\ plain = init.plain
       /\ (run = 1 /\ init.bucket = "present" /\ BucketEmpty /\ Done /\ errors = {})
            => /\ result = Exit(TRUE) /\ bucket = "absent"
               /\ calls["list_buckets"] = 1 /\ calls["delete_bucket"] = 1
               /\ calls["wait"] = 1

C18_Witness ==
  /\ ~force /\ run = 1 /\ init.bucket = "present" /\ init.mode = "Enabled"
  /\ Done /\ result = Exit(TRUE) /\ mode = "Enabled" /\ bucket = "absent"

\* C19: put_bucket_versioning is only ever asked for Suspended, at most once
\* per run, only in a forced run, and only when the mode read at the start of
\* the forced branch was Enabled.
C19_OnlySuspendOnceFromEnabled ==
  /\ puts \subseteq {"Suspended"}
  /\ pending \in {"none", "Suspended"}
  /\ calls["put_bucket_versioning"] <= 1
  /\ pc = "put_versioning"
       => /\ versioning_status = "Enabled" /\ polls = 0
          /\ calls["put_bucket_versioning"] = 0
          /\ calls["get_bucket_versioning"] = 1
  /\ calls["put_bucket_versioning"] > 0
       => /\ force /\ state = "absent"
          /\ puts = {"Suspended"} /\ required_versioning = "Suspended"
          /\ run = 1 => init.mode = "Enabled"

C19_Witness ==
  /\ calls["put_bucket_versioning"] = 1 /\ puts = {"Suspended"}
  /\ Done /\ result = Exit(TRUE) /\ init.mode = "Enabled"
====
